---- MODULE Spec2Model ----
(***************************************************************************)
(* Transfer-event processing pipeline of ark-project:                      *)
(*   src/src/events/transfer_processor.rs  (process_transfers,             *)
(*   get_token_uri, get_token_owner, update_additional_collection_data,    *)
(*   process_mint_event, fetch_metadata).                                  *)
(*                                                                         *)
(* One invocation of process_transfers is a sequence of awaits on external *)
(* collaborators (ledger RPC, key-value store, HTTP).  Every await is one  *)
(* action; the outcome of the awaited call is the action's input.          *)
(* Strings that the code parses or rewrites (latest_mint, the ownerOf      *)
(* word) are sequences of one-character strings, so that parsing and       *)
(* formatting are computed and not assumed.                                *)
(***************************************************************************)
EXTENDS Integers, Sequences, FiniteSets, TLC

VARIABLES
    pc,                   \* position of the invocation inside process_transfers
    event,                \* the decoded EmittedEvent
    contract_type,        \* the contract_type argument
    result,               \* how the invocation ended: "none", "Ok", "Err", "Panic"
    timestamp,            \* block.timestamp
    token_uri_cairo0,     \* get_token_uri: result of "tokenURI"
    token_uri_new,        \* get_token_uri: result of "token_uri"
    token_uri,            \* value returned by get_token_uri
    owner_result,         \* get_token_owner: result of call_contract "ownerOf"
    token_owner,          \* value returned by get_token_owner
    metadata_uri,         \* sanitize_uri(...).0
    initial_metadata_uri, \* sanitize_uri(...).1
    response,             \* the HTTP response fetch_metadata received
    fetched,              \* value returned by fetch_metadata
    collection_result,    \* value returned by get_collection
    collection,           \* store: the collection row of the event's contract
    transfers,            \* store: token-transfer records, in write order
    activities,           \* store: collection activity log, in append order
    tokens,               \* store: token rows, keyed by padded token id
    calls,                \* external calls issued by the invocation, in order
    lastRecon,            \* the latest_mint reconciliation the invocation ran
    file,                 \* LocalFileManager::save: the FileInfo argument
    files,                \* file system: the regular files, path and content
    dirs,                 \* file system: the directories
    save_result           \* LocalFileManager::save: "none", "Ok" or "Err"

vars == <<pc, event, contract_type, result, timestamp, token_uri_cairo0,
          token_uri_new, token_uri, owner_result, token_owner, metadata_uri,
          initial_metadata_uri, response, fetched, collection_result, collection,
          transfers, activities, tokens, calls, lastRecon, file, files, dirs,
          save_result>>

----------------------------------------------------------------------------
(* Bounds *)

MaxFelt == 1
MaxTimestamp == 2
MaxAttributes == 2

(* FieldElement::ZERO *)
FELT_ZERO == 0

Felts == 0..MaxFelt
Timestamps == 0..MaxTimestamp

SeqsUpTo(S, n) == UNION {[1..m -> S] : m \in 0..n}

None == [tag |-> "None"]
Some(v) == [tag |-> "Some", v |-> v]
IsSome(o) == o.tag = "Some"

----------------------------------------------------------------------------
(* Decimal strings: u64::to_string and str::parse::<u64> *)

Digits == <<"0", "1", "2", "3", "4", "5", "6", "7", "8", "9">>

IsDigit(c) == \E i \in 1..10 : Digits[i] = c

DigitVal(c) == (CHOOSE i \in 1..10 : Digits[i] = c) - 1

RECURSIVE U64ToString(_)
U64ToString(n) ==
    IF n < 10 THEN <<Digits[n + 1]>>
    ELSE U64ToString(n \div 10) \o <<Digits[(n % 10) + 1]>>

RECURSIVE DigitsValue(_)
DigitsValue(s) ==
    IF Len(s) = 0 THEN 0
    ELSE 10 * DigitsValue(SubSeq(s, 1, Len(s) - 1)) + DigitVal(s[Len(s)])

\* <u64 as FromStr>::from_str: empty -> Err; a lone sign -> Err; one leading
\* "+" is accepted; every other character must be a decimal digit.
ParseU64(s) ==
    LET body == IF Len(s) > 0 /\ s[1] = "+" THEN Tail(s) ELSE s
    IN  IF Len(body) = 0 THEN None
        ELSE IF \A i \in 1..Len(body) : IsDigit(body[i])
             THEN Some(DigitsValue(body))
             ELSE None

----------------------------------------------------------------------------
(* serde_json::Value as fetch_metadata reads it.                           *)
(* A value has a kind k; a string carries its text s; an array carries its *)
(* elements a; an object carries its members f, a key that the object does *)
(* not have being mapped to JAbsent.                                       *)

TopKeys == {"description", "image", "name", "external_url", "attributes"}
AttrKeys == {"trait_type", "value", "display_type"}

JLeaf(k, s) == [k |-> k, s |-> s]
JAbsent == JLeaf("absent", "")
JNum == JLeaf("num", "")
JStr(s) == JLeaf("str", s)

\* elements of the "attributes" array
JElemObj(f) == [k |-> "obj", s |-> "", f |-> f]
JElemLeaf(k, s) == [k |-> k, s |-> s, f |-> [key \in AttrKeys |-> JAbsent]]

\* top-level members
JField(k, s, a) == [k |-> k, s |-> s, a |-> a]
JFieldAbsent == JField("absent", "", <<>>)

\* the document
JDoc(k, f) == [k |-> k, f |-> f]

\* Value::get(key): Some only when the value is an object that has the key
JGet(v, key) ==
    IF v.k = "obj" /\ v.f[key].k # "absent" THEN Some(v.f[key]) ELSE None

\* Value::as_str
AsStr(v) == IF v.k = "str" THEN Some(v.s) ELSE None

\* Value::as_array
AsArray(v) == IF v.k = "arr" THEN Some(v.a) ELSE None

\* Option::and_then with as_str / as_array
AndThenAsStr(o) == IF IsSome(o) THEN AsStr(o.v) ELSE None
AndThenAsArray(o) == IF IsSome(o) THEN AsArray(o.v) ELSE None
UnwrapOr(o, d) == IF IsSome(o) THEN o.v ELSE d

\* raw.get(key).and_then(|v| v.as_str()).unwrap_or("").to_string()
StrFieldOr(v, key) == UnwrapOr(AndThenAsStr(JGet(v, key)), "")

NormalizeAttribute(attribute) ==
    [trait_type   |-> StrFieldOr(attribute, "trait_type"),
     value        |-> StrFieldOr(attribute, "value"),
     display_type |-> StrFieldOr(attribute, "display_type")]

NormalizeAttributes(raw_metadata) ==
    LET attributes == UnwrapOr(AndThenAsArray(JGet(raw_metadata, "attributes")), <<>>)
    IN  [i \in 1..Len(attributes) |-> NormalizeAttribute(attributes[i])]

ExternalUrlMut(raw_metadata, initial) ==
    UnwrapOr(AndThenAsStr(JGet(raw_metadata, "external_url")), initial)

ExternalUrl(raw_metadata, initial) == initial

NormalizeMut(raw_metadata, initial) ==
    [description  |-> StrFieldOr(raw_metadata, "description"),
     external_url |-> ExternalUrl(raw_metadata, initial),
     image        |-> StrFieldOr(raw_metadata, "image"),
     name         |-> StrFieldOr(raw_metadata, "description"),
     attributes   |-> NormalizeAttributes(raw_metadata)]

Normalize(raw_metadata, initial) ==
    [description  |-> StrFieldOr(raw_metadata, "description"),
     external_url |-> ExternalUrl(raw_metadata, initial),
     image        |-> StrFieldOr(raw_metadata, "image"),
     name         |-> StrFieldOr(raw_metadata, "name"),
     attributes   |-> NormalizeAttributes(raw_metadata)]

\* An HTTP exchange: send() fails (net = "err"), or a response arrives with a
\* status and a body that is JSON (body = "json", json = the document) or not.
NoDoc == JDoc("null", [key \in TopKeys |-> JFieldAbsent])
HttpNetErr == [net |-> "err", status |-> 0, body |-> "none", json |-> NoDoc]
HttpResp(status, body, json) == [net |-> "ok", status |-> status, body |-> body, json |-> json]
NoResponse == [net |-> "none", status |-> 0, body |-> "none", json |-> NoDoc]

FetchErr(e) == [ok |-> FALSE, err |-> e, raw |-> NoDoc,
                normalized |-> Normalize(NoDoc, "")]
NotFetched == [ok |-> FALSE, err |-> "not called", raw |-> NoDoc,
               normalized |-> Normalize(NoDoc, "")]

\* fetch_metadata(client, metadata_uri, initial_metadata_uri), given the
\* exchange that client.get(metadata_uri).send() produced
fetch_metadata(resp, initial) ==
    IF resp.net # "ok" THEN FetchErr("send")
    ELSE IF resp.body # "json" THEN FetchErr("json")
    ELSE [ok |-> TRUE, err |-> "", raw |-> resp.json,
          normalized |-> Normalize(resp.json, initial)]

----------------------------------------------------------------------------
(* Inputs of one invocation *)

\* an EmittedEvent the upstream filter hands over: data = from, to, id low, id high
Events ==
    [block_number : {100},
     from_address : {7},
     transaction_hash : {9},
     data : {<<f, t, 1, 0>> : f \in Felts, t \in Felts}]

NoEvent == [block_number |-> 0, from_address |-> 0, transaction_hash |-> 0,
            data |-> <<0, 0, 0, 0>>]

ContractTypes == {"erc721"}

\* what get_contract_property_string returns for "tokenURI" / "token_uri"
UriResults == {"", "undefined", "ipfs://Qm/1.json", "https://host/2.json"}

\* what get_contract_property_string returns for "name" and for "symbol"
NameResults == {"Ark"}
SymbolResults == {"ARK"}

\* the words call_contract returns for "ownerOf", each as its to_string() text
OwnerWord == <<"\"", "0", "x", "1", "\"">>
OwnerResults == {[ok |-> FALSE, words |-> <<>>],
                 [ok |-> TRUE, words |-> <<>>],
                 [ok |-> TRUE, words |-> <<OwnerWord>>]}

\* get_block_with_txs: Err, a block without "timestamp", or a block with one
BlockResults ==
    {[ok |-> FALSE, has_timestamp |-> FALSE, timestamp |-> 0],
     [ok |-> TRUE, has_timestamp |-> FALSE, timestamp |-> 0]}
    \cup {[ok |-> TRUE, has_timestamp |-> TRUE, timestamp |-> t] : t \in Timestamps}

\* the documents a metadata server answers with in the pipeline
DocEmpty == JDoc("obj", [key \in TopKeys |-> JFieldAbsent])
DocFoo ==
    JDoc("obj",
         [key \in TopKeys |->
            CASE key = "name" -> JField("str", "Foo", <<>>)
              [] key = "image" -> JField("str", "ipfs://img", <<>>)
              [] key = "external_url" -> JField("str", "https://ext", <<>>)
              [] key = "attributes" ->
                    JField("arr", "",
                           <<JElemObj([k \in AttrKeys |->
                                         IF k = "display_type" THEN JAbsent
                                         ELSE JStr(k)])>>)
              [] OTHER -> JFieldAbsent])

HttpStatuses == {200, 404}

PipelineResponses ==
    {HttpNetErr}
    \cup {HttpResp(st, "text", NoDoc) : st \in HttpStatuses}
    \cup {HttpResp(st, "json", d) : st \in HttpStatuses, d \in {DocEmpty, DocFoo}}

----------------------------------------------------------------------------
(* The store *)

\* latest_mint values a collection row can hold: written by
\* update_collection_latest_mint (decimal text of a u64) or by other writers
StoredLatestMints ==
    {None, Some(<<"a", "b", "c">>), Some(<<"0", "1">>)}
    \cup {Some(U64ToString(n)) : n \in 0..(MaxTimestamp + 1)}

NoCollection == [exists |-> FALSE, contract_type |-> "", name |-> "", symbol |-> "",
                 latest_mint |-> None]

CollectionRows ==
    {NoCollection}
    \cup {[exists |-> TRUE, contract_type |-> "erc721", name |-> "Ark",
           symbol |-> "ARK", latest_mint |-> lm] : lm \in StoredLatestMints}

\* format!("{:#064x}", felt)
FmtHex(felt) == <<"0x", felt>>

\* TokenId::format
FormatTokenId(low, high) ==
    [low |-> low, high |-> high, token_id |-> <<"id", high, low>>,
     padded_token_id |-> <<"padded", high, low>>]

\* an activity entry an earlier invocation appended
PriorActivity ==
    [address |-> FmtHex(7), timestamp |-> 0, block_number |-> 99,
     event_type |-> "mint", from_address |-> FmtHex(0),
     padded_token_id |-> <<"padded", 0, 2>>, token_uri |-> "undefined",
     to_address |-> FmtHex(1), transaction_hash |-> FmtHex(8),
     token_type |-> "erc721"]

----------------------------------------------------------------------------
(* Pure steps of the pipeline *)

\* get_token_uri: the test applied to each method's result
IsResolvedMut(uri) == uri = "undefined" \/ uri = ""

IsResolvedNonEmptyMut(uri) == uri # "undefined"

IsResolved(uri) == uri # "undefined" /\ uri # ""

\* process_transfers: event.data[0] == FieldElement::ZERO
IsMintMut(e) == e.data[2] = FELT_ZERO

IsMintInvertedMut(e) == e.data[1] # FELT_ZERO

IsMint(e) == e.data[1] = FELT_ZERO

\* get_token_owner: the match on the call_contract result
get_token_ownerQuotedMut(r) ==
    IF r.ok
    THEN IF Len(r.words) > 0 THEN r.words[1] ELSE <<>>
    ELSE <<>>

get_token_owner(r) ==
    IF r.ok
    THEN IF Len(r.words) > 0
         THEN SelectSeq(r.words[1], LAMBDA c : c # "\"")
         ELSE <<>>
    ELSE <<>>

\* sanitize_uri: the fetchable URIs it may return for a token URI; the second
\* component of its result is the URI it was given
SanitizedUris(uri) ==
    CASE uri = "ipfs://Qm/1.json" -> {"https://gateway/Qm/1.json"}
      [] uri = "undefined" -> {"", "undefined"}
      [] OTHER -> {uri}

\* process_mint_event, Ok(Some(collection)) arm: the value handed to
\* update_collection_latest_mint, or None when no write is issued
LatestMintWriteSkipMut(latest_mint, ts) ==
    IF IsSome(latest_mint)
    THEN LET parsed == ParseU64(latest_mint.v)
         IN  IF IsSome(parsed)
             THEN IF parsed.v > ts THEN Some(parsed.v) ELSE None
             ELSE Some(ts)
    ELSE Some(ts)

LatestMintWriteSumMut(latest_mint, ts) ==
    IF IsSome(latest_mint)
    THEN LET parsed == ParseU64(latest_mint.v)
         IN  IF IsSome(parsed)
             THEN IF parsed.v > ts THEN Some(parsed.v - ts) ELSE None
             ELSE None
    ELSE Some(ts)

LatestMintWriteGeMut(latest_mint, ts) ==
    IF IsSome(latest_mint)
    THEN LET parsed == ParseU64(latest_mint.v)
         IN  IF IsSome(parsed)
             THEN IF parsed.v >= ts THEN Some(parsed.v) ELSE None
             ELSE None
    ELSE Some(ts)

LatestMintWriteAbsentMut(latest_mint, ts) ==
    IF IsSome(latest_mint)
    THEN LET parsed == ParseU64(latest_mint.v)
         IN  IF IsSome(parsed)
             THEN IF parsed.v > ts THEN Some(parsed.v) ELSE None
             ELSE None
    ELSE None

LatestMintWriteNewMut(latest_mint, ts) ==
    IF IsSome(latest_mint)
    THEN LET parsed == ParseU64(latest_mint.v)
         IN  IF IsSome(parsed)
             THEN IF parsed.v > ts THEN Some(ts) ELSE None
             ELSE None
    ELSE Some(ts)

LatestMintWrite(latest_mint, ts) ==
    IF IsSome(latest_mint)
    THEN LET parsed == ParseU64(latest_mint.v)
         IN  IF IsSome(parsed)
             THEN IF parsed.v > ts THEN Some(parsed.v) ELSE None
             ELSE None
    ELSE Some(ts)

\* update_collection_latest_mint: the row after a successful write
WithLatestMint(row, value) == [row EXCEPT !.latest_mint = Some(U64ToString(value))]

\* update_collection_latest_mint: the condition of the store write, which is
\* applied only while the row still holds the latest_mint that was read
WriteAppliesBlindMut(stored, read) == TRUE

WriteApplies(stored, read) == stored = read

\* update_collection: the row after a successful upsert
Upserted(row, ctype, name, symbol) ==
    [row EXCEPT !.exists = TRUE, !.contract_type = ctype, !.name = name,
                !.symbol = symbol]

\* the stored latest_mint after one reconciliation whose write succeeds
Reconciled(latest_mint, ts) ==
    LET w == LatestMintWrite(latest_mint, ts)
    IN  IF IsSome(w) THEN Some(U64ToString(w.v)) ELSE latest_mint

TransferRecord ==
    [address |-> FmtHex(event.from_address),
     padded_token_id |-> FormatTokenId(event.data[3], event.data[4]).padded_token_id,
     from_address |-> FmtHex(event.data[1]),
     to_address |-> FmtHex(event.data[2]),
     timestamp |-> timestamp,
     transaction_hash |-> FmtHex(event.transaction_hash)]

Activity ==
    [address |-> FmtHex(event.from_address),
     timestamp |-> timestamp,
     block_number |-> event.block_number,
     event_type |-> "mint",
     from_address |-> FmtHex(event.data[1]),
     padded_token_id |-> FormatTokenId(event.data[3], event.data[4]).padded_token_id,
     token_uri |-> token_uri,
     to_address |-> FmtHex(event.data[2]),
     transaction_hash |-> FmtHex(event.transaction_hash),
     token_type |-> contract_type]

UpdateTokenDataSanitizedMut ==
    [collection_address |-> FmtHex(event.from_address),
     padded_token_id |-> FormatTokenId(event.data[3], event.data[4]).padded_token_id,
     token_uri |-> metadata_uri,
     owner |-> token_owner,
     mint_transaction_hash |-> FmtHex(event.transaction_hash),
     block_number_minted |-> event.block_number,
     raw |-> <<"to_string", fetched.raw>>,
     normalized |-> fetched.normalized]

UpdateTokenData ==
    [collection_address |-> FmtHex(event.from_address),
     padded_token_id |-> FormatTokenId(event.data[3], event.data[4]).padded_token_id,
     token_uri |-> token_uri,
     owner |-> token_owner,
     mint_transaction_hash |-> FmtHex(event.transaction_hash),
     block_number_minted |-> event.block_number,
     raw |-> <<"to_string", fetched.raw>>,
     normalized |-> fetched.normalized]

----------------------------------------------------------------------------
(* The invocation *)

NoOwnerResult == [ok |-> FALSE, words |-> <<>>]

\* the pipeline never touches the file manager
NoFile == [name |-> [abs |-> FALSE, comps |-> <<>>], content |-> <<>>, dir_path |-> None]
NoFileSystem ==
    /\ file = NoFile
    /\ files = {}
    /\ dirs = {}
    /\ save_result = "none"

NoRecon == [ran |-> FALSE, before |-> None, ts |-> 0, wanted |-> FALSE,
            applied |-> FALSE, after |-> None]
NoCollectionResult == [tag |-> "none", row |-> NoCollection]

Locals ==
    /\ pc = "start"
    /\ event = NoEvent
    /\ contract_type = ""
    /\ result = "none"
    /\ timestamp = 0
    /\ token_uri_cairo0 = ""
    /\ token_uri_new = ""
    /\ token_uri = ""
    /\ owner_result = NoOwnerResult
    /\ token_owner = <<>>
    /\ metadata_uri = ""
    /\ initial_metadata_uri = ""
    /\ response = NoResponse
    /\ fetched = NotFetched
    /\ collection_result = NoCollectionResult
    /\ calls = <<>>
    /\ NoFileSystem
    /\ lastRecon = NoRecon

Init ==
    /\ Locals
    /\ collection \in CollectionRows
    /\ transfers = <<>>
    /\ activities \in {<<>>, <<PriorActivity>>}
    /\ tokens = {}

storeVars == <<collection, transfers, activities, tokens>>
uriVars == <<token_uri_cairo0, token_uri_new, token_uri>>
ownerVars == <<owner_result, token_owner>>
fileVars == <<file, files, dirs, save_result>>
mintVars == <<metadata_uri, initial_metadata_uri, response, fetched,
              collection_result, lastRecon>>

\* the return of process_transfers / the unwinding of a panic
Ends(how) == pc' = "done" /\ result' = how
Goes(to) == pc' = to /\ UNCHANGED result
Issues(names) == calls' = calls \o names

\* let event: EmittedEvent = serde_json::from_str(value)?
Decode ==
    /\ pc = "start"
    /\ \E e \in Events, ct \in ContractTypes, decodes \in BOOLEAN :
          IF decodes
          THEN event' = e /\ contract_type' = ct /\ Goes("get_block_with_txs")
          ELSE UNCHANGED <<event, contract_type>> /\ Ends("Err")
    /\ UNCHANGED <<fileVars, timestamp, uriVars, ownerVars, mintVars, storeVars, calls>>

\* get_block_with_txs(..).await.unwrap(); block.get("timestamp").unwrap()
GetBlock ==
    /\ pc = "get_block_with_txs"
    /\ Issues(<<"get_block_with_txs">>)
    /\ \E b \in BlockResults :
          IF b.ok /\ b.has_timestamp
          THEN timestamp' = b.timestamp /\ Goes("tokenURI")
          ELSE UNCHANGED timestamp /\ Ends("Panic")
    /\ UNCHANGED <<fileVars, event, contract_type, uriVars, ownerVars, mintVars, storeVars>>

\* get_token_uri: the "tokenURI" call and the first test
CallTokenURI ==
    /\ pc = "tokenURI"
    /\ Issues(<<"tokenURI">>)
    /\ \E r \in UriResults :
          /\ token_uri_cairo0' = r
          /\ IF IsResolved(r)
             THEN token_uri' = r /\ Goes("ownerOf")
             ELSE UNCHANGED token_uri /\ Goes("token_uri")
    /\ UNCHANGED token_uri_new
    /\ UNCHANGED <<fileVars, event, contract_type, timestamp, ownerVars, mintVars, storeVars>>

\* get_token_uri: the "token_uri" call and the second test
CallTokenUriNew ==
    /\ pc = "token_uri"
    /\ Issues(<<"token_uri">>)
    /\ \E r \in UriResults :
          /\ token_uri_new' = r
          /\ token_uri' = IF IsResolved(r) THEN r ELSE "undefined"
    /\ Goes("ownerOf")
    /\ UNCHANGED <<fileVars, event, contract_type, timestamp, token_uri_cairo0, ownerVars,
                   mintVars, storeVars>>

\* get_token_owner
CallOwnerOf ==
    /\ pc = "ownerOf"
    /\ Issues(<<"ownerOf">>)
    /\ \E r \in OwnerResults :
          owner_result' = r /\ token_owner' = get_token_owner(r)
    /\ Goes("update_collection")
    /\ UNCHANGED <<fileVars, event, contract_type, timestamp, uriVars, mintVars, storeVars>>

\* update_additional_collection_data(..).await.unwrap()
UpdateAdditionalCollectionData ==
    /\ pc = "update_collection"
    /\ Issues(<<"symbol", "name", "update_collection">>)
    /\ \E collection_symbol \in SymbolResults, collection_name \in NameResults,
          ok \in BOOLEAN :
          IF ok
          THEN /\ collection' = Upserted(collection, contract_type,
                                         collection_name, collection_symbol)
               /\ Goes("update_token_transfers")
          ELSE UNCHANGED collection /\ Ends("Panic")
    /\ UNCHANGED <<fileVars, event, contract_type, timestamp, uriVars, ownerVars, mintVars,
                   transfers, activities, tokens>>

\* update_token_transfers, then the branch on event.data[0]
UpdateTokenTransfers ==
    /\ pc = "update_token_transfers"
    /\ Issues(<<"update_token_transfers">>)
    /\ \E ok \in BOOLEAN :
          transfers' = IF ok THEN Append(transfers, TransferRecord) ELSE transfers
    /\ IF IsMint(event) THEN Goes("sanitize_uri") ELSE Ends("Ok")
    /\ UNCHANGED <<fileVars, event, contract_type, timestamp, uriVars, ownerVars, mintVars,
                   collection, activities, tokens>>

\* process_mint_event: sanitize_uri(token_data.token_uri)
SanitizeUri ==
    /\ pc = "sanitize_uri"
    /\ Issues(<<"sanitize_uri">>)
    /\ \E m \in SanitizedUris(token_uri) : metadata_uri' = m
    /\ initial_metadata_uri' = token_uri
    /\ Goes("get_collection")
    /\ UNCHANGED <<fileVars, event, contract_type, timestamp, uriVars, ownerVars, response,
                   fetched, collection_result, lastRecon, storeVars>>

\* process_mint_event after the match on collection_result
AfterCollection ==
    IF metadata_uri # "" THEN Goes("fetch_metadata") ELSE Ends("Ok")

\* process_mint_event: get_collection and the choice of the match arm
GetCollection ==
    /\ pc = "get_collection"
    /\ Issues(<<"get_collection">>)
    /\ \E tag \in {"some", "none", "err"} :
          /\ tag = "some" => collection.exists
          /\ collection_result' =
                [tag |-> tag, row |-> IF tag = "some" THEN collection ELSE NoCollection]
          /\ IF tag = "some"
             THEN LET w == LatestMintWrite(collection.latest_mint, timestamp)
                  IN  IF IsSome(w)
                      THEN Goes("update_collection_latest_mint") /\ UNCHANGED lastRecon
                      ELSE /\ Goes("add_collection_activity")
                           /\ lastRecon' = [ran |-> TRUE,
                                            before |-> collection.latest_mint,
                                            ts |-> timestamp, wanted |-> FALSE,
                                            applied |-> FALSE,
                                            after |-> collection.latest_mint]
             ELSE AfterCollection /\ UNCHANGED lastRecon
    /\ UNCHANGED <<fileVars, event, contract_type, timestamp, uriVars, ownerVars, metadata_uri,
                   initial_metadata_uri, response, fetched, storeVars>>

\* let _ = update_collection_latest_mint(..).await
UpdateCollectionLatestMint ==
    /\ pc = "update_collection_latest_mint"
    /\ Issues(<<"update_collection_latest_mint">>)
    /\ LET w == LatestMintWrite(collection_result.row.latest_mint, timestamp)
       IN  \E ok \in BOOLEAN :
             LET applies == ok /\ WriteApplies(collection.latest_mint,
                                                collection_result.row.latest_mint)
             IN  /\ collection' = IF applies THEN WithLatestMint(collection, w.v)
                                   ELSE collection
                 /\ lastRecon' = [ran |-> TRUE, before |-> collection.latest_mint,
                                  ts |-> timestamp, wanted |-> TRUE,
                                  applied |-> applies,
                                  after |-> collection'.latest_mint]
    /\ Goes("add_collection_activity")
    /\ UNCHANGED <<fileVars, event, contract_type, timestamp, uriVars, ownerVars, metadata_uri,
                   initial_metadata_uri, response, fetched, collection_result,
                   transfers, activities, tokens>>

\* let _ = add_collection_activity(..).await
AddCollectionActivity ==
    /\ pc = "add_collection_activity"
    /\ Issues(<<"add_collection_activity">>)
    /\ \E ok \in BOOLEAN :
          activities' = IF ok THEN Append(activities, Activity) ELSE activities
    /\ AfterCollection
    /\ UNCHANGED <<fileVars, event, contract_type, timestamp, uriVars, ownerVars, mintVars,
                   collection, transfers, tokens>>

\* fetch_metadata(client, metadata_uri, initial_metadata_uri) and the match on it
FetchMetadata ==
    /\ pc = "fetch_metadata"
    /\ Issues(<<"http_get">>)
    /\ \E resp \in PipelineResponses :
          /\ response' = resp
          /\ fetched' = fetch_metadata(resp, initial_metadata_uri)
          /\ IF fetch_metadata(resp, initial_metadata_uri).ok
             THEN Goes("update_token")
             ELSE Ends("Ok")
    /\ UNCHANGED <<fileVars, event, contract_type, timestamp, uriVars, ownerVars, metadata_uri,
                   initial_metadata_uri, collection_result, lastRecon, storeVars>>

\* let _ = update_token(dynamo_client, update_token_data).await
UpdateToken ==
    /\ pc = "update_token"
    /\ Issues(<<"update_token">>)
    /\ \E ok \in BOOLEAN :
          tokens' = IF ok
                    THEN {t \in tokens :
                            t.padded_token_id # UpdateTokenData.padded_token_id}
                         \cup {UpdateTokenData}
                    ELSE tokens
    /\ Ends("Ok")
    /\ UNCHANGED <<fileVars, event, contract_type, timestamp, uriVars, ownerVars, mintVars,
                   collection, transfers, activities>>

Next ==
    \/ Decode
    \/ GetBlock
    \/ CallTokenURI
    \/ CallTokenUriNew
    \/ CallOwnerOf
    \/ UpdateAdditionalCollectionData
    \/ UpdateTokenTransfers
    \/ SanitizeUri
    \/ GetCollection
    \/ UpdateCollectionLatestMint
    \/ AddCollectionActivity
    \/ FetchMetadata
    \/ UpdateToken

Spec == Init /\ [][Next]_vars

----------------------------------------------------------------------------
(* fetch_metadata on its own: every response of the bounded sets below *)

AttributeMembers ==
    {f \in [AttrKeys -> {JAbsent, JNum} \cup {JStr(key) : key \in AttrKeys}] :
        \A key \in AttrKeys :
            /\ f[key].k = "str" => f[key].s = key
            /\ key = "display_type" => f[key].k # "num"}

AttributeElems == {JElemLeaf("num", "")} \cup {JElemObj(f) : f \in AttributeMembers}

AttributesFields ==
    {JFieldAbsent, JField("str", "oops", <<>>)}
    \cup {JField("arr", "", a) : a \in SeqsUpTo(AttributeElems, MaxAttributes)}

MetaDocs ==
    {JDoc("arr", [key \in TopKeys |-> JFieldAbsent])}
    \cup {JDoc("obj",
               [key \in TopKeys |->
                  CASE key = "description" -> d
                    [] key = "image" -> i
                    [] key = "name" -> n
                    [] key = "external_url" -> e
                    [] OTHER -> a]) :
            d \in {JFieldAbsent, JField("str", "desc", <<>>), JField("num", "", <<>>)},
            i \in {JFieldAbsent, JField("str", "ipfs://img", <<>>)},
            n \in {JFieldAbsent, JField("str", "Foo", <<>>)},
            e \in {JFieldAbsent, JField("str", "https://ext", <<>>)},
            a \in AttributesFields}

MetaResponses ==
    {HttpNetErr}
    \cup {HttpResp(st, "text", NoDoc) : st \in HttpStatuses}
    \cup {HttpResp(st, "json", d) : st \in HttpStatuses, d \in MetaDocs}

InitMeta ==
    /\ pc = "fetch_metadata_call"
    /\ event = NoEvent
    /\ contract_type = ""
    /\ result = "none"
    /\ timestamp = 0
    /\ token_uri_cairo0 = ""
    /\ token_uri_new = ""
    /\ token_uri = ""
    /\ owner_result = NoOwnerResult
    /\ token_owner = <<>>
    /\ metadata_uri = "https://gateway/Qm/1.json"
    /\ initial_metadata_uri \in {"ipfs://Qm/1.json", "https://host/2.json"}
    /\ response \in MetaResponses
    /\ fetched = NotFetched
    /\ collection_result = NoCollectionResult
    /\ calls = <<>>
    /\ NoFileSystem
    /\ lastRecon = NoRecon
    /\ collection = NoCollection
    /\ transfers = <<>>
    /\ activities = <<>>
    /\ tokens = {}

\* one call of fetch_metadata(client, metadata_uri, initial_metadata_uri)
MetaFetch ==
    /\ pc = "fetch_metadata_call"
    /\ pc' = "fetch_metadata_returned"
    /\ calls' = Append(calls, "http_get")
    /\ fetched' = fetch_metadata(response, initial_metadata_uri)
    /\ UNCHANGED <<fileVars, event, contract_type, result, timestamp, uriVars, ownerVars,
                   metadata_uri, initial_metadata_uri, response, collection_result,
                   lastRecon, storeVars>>

NextMeta == MetaFetch

SpecMeta == InitMeta /\ [][NextMeta]_vars

----------------------------------------------------------------------------
(* Two invocations reconciling latest_mint of the same collection row.     *)
(* pc, timestamp, collection_result and lastRecon hold one value per       *)
(* invocation; lastRecon[0].before keeps the latest_mint the row had       *)
(* before either invocation read it.                                       *)

Procs == {1, 2}

InitConc ==
    /\ pc = [p \in Procs |-> "get_collection"]
    /\ timestamp \in [Procs -> Timestamps]
    /\ collection \in {row \in CollectionRows : row.exists}
    /\ collection_result = [p \in Procs |-> NoCollectionResult]
    /\ lastRecon = [p \in Procs \cup {0} |->
                      IF p = 0 THEN [NoRecon EXCEPT !.before = collection.latest_mint]
                      ELSE NoRecon]
    /\ event = NoEvent
    /\ contract_type = "erc721"
    /\ result = "none"
    /\ token_uri_cairo0 = ""
    /\ token_uri_new = ""
    /\ token_uri = ""
    /\ owner_result = NoOwnerResult
    /\ token_owner = <<>>
    /\ metadata_uri = ""
    /\ initial_metadata_uri = ""
    /\ response = NoResponse
    /\ fetched = NotFetched
    /\ calls = <<>>
    /\ NoFileSystem
    /\ transfers = <<>>
    /\ activities = <<>>
    /\ tokens = {}

concFixed == <<fileVars, event, contract_type, result, uriVars, ownerVars, metadata_uri,
               initial_metadata_uri, response, fetched, timestamp, transfers,
               activities, tokens>>

\* process_mint_event of invocation p: get_collection and the match arm
ConcGetCollection(p) ==
    /\ pc[p] = "get_collection"
    /\ calls' = Append(calls, <<p, "get_collection">>)
    /\ \E tag \in {"some", "none", "err"} :
          /\ collection_result' =
                [collection_result EXCEPT
                    ![p] = [tag |-> tag,
                            row |-> IF tag = "some" THEN collection ELSE NoCollection]]
          /\ IF tag = "some"
             THEN LET w == LatestMintWrite(collection.latest_mint, timestamp[p])
                  IN  IF IsSome(w)
                      THEN /\ pc' = [pc EXCEPT ![p] = "update_collection_latest_mint"]
                           /\ UNCHANGED lastRecon
                      ELSE /\ pc' = [pc EXCEPT ![p] = "reconciled"]
                           /\ lastRecon' =
                                 [lastRecon EXCEPT
                                     ![p] = [ran |-> TRUE,
                                             before |-> collection.latest_mint,
                                             ts |-> timestamp[p], wanted |-> FALSE,
                                             applied |-> FALSE,
                                             after |-> collection.latest_mint]]
             ELSE /\ pc' = [pc EXCEPT ![p] = "reconciled"]
                  /\ UNCHANGED lastRecon
    /\ UNCHANGED <<concFixed, collection>>

\* let _ = update_collection_latest_mint(..).await of invocation p
ConcUpdateCollectionLatestMint(p) ==
    /\ pc[p] = "update_collection_latest_mint"
    /\ calls' = Append(calls, <<p, "update_collection_latest_mint">>)
    /\ LET w == LatestMintWrite(collection_result[p].row.latest_mint, timestamp[p])
       IN  \E ok \in BOOLEAN :
             LET applies == ok /\ WriteApplies(collection.latest_mint,
                                                collection_result[p].row.latest_mint)
             IN  /\ collection' = IF applies THEN WithLatestMint(collection, w.v)
                                   ELSE collection
                 /\ lastRecon' =
                       [lastRecon EXCEPT
                           ![p] = [ran |-> TRUE, before |-> collection.latest_mint,
                                   ts |-> timestamp[p], wanted |-> TRUE,
                                   applied |-> applies,
                                   after |-> collection'.latest_mint]]
    /\ pc' = [pc EXCEPT ![p] = "reconciled"]
    /\ UNCHANGED <<concFixed, collection_result>>

NextConc ==
    \E p \in Procs :
        \/ ConcGetCollection(p)
        \/ ConcUpdateCollectionLatestMint(p)

SpecConc == InitConc /\ [][NextConc]_vars

----------------------------------------------------------------------------
(* LocalFileManager::save (crates/ark-metadata/src/file_manager.rs).       *)
(* A path is its components and whether it is absolute; the file system is *)
(* the set of directories and the set of regular files with their content. *)

MaxContent == 2

Path(abs, comps) == [abs |-> abs, comps |-> comps]

\* Path::join: an absolute argument replaces the path it is joined to
PathJoin(base, p) ==
    IF p.abs THEN p ELSE Path(base.abs, base.comps \o p.comps)

\* Path::parent
PathParent(p) == Path(p.abs, SubSeq(p.comps, 1, Len(p.comps) - 1))

\* the file system's reading of a path: "." components name no directory
Resolved(p) == Path(p.abs, SelectSeq(p.comps, LAMBDA c : c # "."))

\* the directory itself and every directory above it, the root left out
DirChain(d) ==
    {Path(d.abs, SubSeq(Resolved(d).comps, 1, n)) : n \in 1..Len(Resolved(d).comps)}

\* Path::new("images").join(dir_path).join(&file.name)
SavePath(f) ==
    LET dir_path == UnwrapOr(f.dir_path, Path(FALSE, <<".", "tmp">>))
    IN  PathJoin(PathJoin(Path(FALSE, <<"images">>), dir_path), f.name)

IsFile(p) == \E f \in files : f.path = Resolved(p)

Contents == SeqsUpTo({0, 1}, MaxContent)

FileInfos ==
    [name : {Path(FALSE, <<"test_file.txt">>), Path(TRUE, <<"test_file.txt">>)},
     content : Contents,
     dir_path : {None, Some(Path(FALSE, <<"some_subdir">>)),
                 Some(Path(FALSE, <<"a", "b">>)), Some(Path(TRUE, <<"srv">>))}]

\* file systems save may find: empty; images/tmp/test_file.txt already there;
\* a regular file where the directory images/some_subdir would go
FileSystems ==
    {[dirs |-> {}, files |-> {}],
     [dirs |-> {Path(FALSE, <<"images">>), Path(FALSE, <<"images", "tmp">>)},
      files |-> {[path |-> Path(FALSE, <<"images", "tmp", "test_file.txt">>),
                  content |-> <<1, 1, 1>>]}],
     [dirs |-> {Path(FALSE, <<"images">>)},
      files |-> {[path |-> Path(FALSE, <<"images", "some_subdir">>),
                  content |-> <<>>]}]}

InitFile ==
    /\ pc = "save"
    /\ file \in FileInfos
    /\ \E fs \in FileSystems : dirs = fs.dirs /\ files = fs.files
    /\ save_result = "none"
    /\ event = NoEvent
    /\ contract_type = ""
    /\ result = "none"
    /\ timestamp = 0
    /\ token_uri_cairo0 = ""
    /\ token_uri_new = ""
    /\ token_uri = ""
    /\ owner_result = NoOwnerResult
    /\ token_owner = <<>>
    /\ metadata_uri = ""
    /\ initial_metadata_uri = ""
    /\ response = NoResponse
    /\ fetched = NotFetched
    /\ collection_result = NoCollectionResult
    /\ calls = <<>>
    /\ lastRecon = NoRecon
    /\ collection = NoCollection
    /\ transfers = <<>>
    /\ activities = <<>>
    /\ tokens = {}

\* the files after File::create(path) and write_all of the bytes written
Written(path, bytes) ==
    {f \in files : f.path # Resolved(path)}
    \cup {[path |-> Resolved(path), content |-> bytes]}

\* LocalFileManager::save: create_dir_all, File::create, write_all, each of
\* which may fail and end the call with Err
Save ==
    /\ pc = "save"
    /\ pc' = "saved"
    /\ LET path == SavePath(file)
           parent == PathParent(path)
       IN  \E fails \in {"none", "create_dir_all", "create", "write_all"} :
             IF fails = "create_dir_all" \/ \E d \in DirChain(parent) : IsFile(d)
             THEN /\ save_result' = "Err"
                  /\ UNCHANGED <<files, dirs>>
             ELSE /\ dirs' = dirs \cup DirChain(parent)
                  /\ IF fails = "create" \/ Resolved(path) \in dirs'
                     THEN save_result' = "Err" /\ UNCHANGED files
                     ELSE IF fails = "write_all"
                          THEN /\ save_result' = "Err"
                               /\ \E n \in 0..Len(file.content) :
                                     files' = Written(path, SubSeq(file.content, 1, n))
                          ELSE /\ save_result' = "Ok"
                               /\ files' = Written(path, file.content)
    /\ UNCHANGED <<file, event, contract_type, result, timestamp, uriVars, ownerVars,
                   mintVars, storeVars, calls>>

NextFile == Save

SpecFile == InitFile /\ [][NextFile]_vars

----------------------------------------------------------------------------
(* Properties *)

Called(name) == \E i \in 1..Len(calls) : calls[i] = name

Count(name) == Cardinality({i \in 1..Len(calls) : calls[i] = name})

MintCalls == {"sanitize_uri", "get_collection", "update_collection_latest_mint",
              "add_collection_activity", "http_get", "update_token"}

MintWrites == {"update_collection_latest_mint", "add_collection_activity",
               "update_token"}

StoreWrites == MintWrites \cup {"update_collection", "update_token_transfers"}

InMintBranch ==
    \/ pc \in {"sanitize_uri", "get_collection", "update_collection_latest_mint",
               "add_collection_activity", "fetch_metadata", "update_token"}
    \/ \E name \in MintCalls : Called(name)

\* C1: the mint branch of process_transfers is taken if and only if the
\* event's from word data[0] is zero: no mint step runs for another from
\* value, and once the transfer record was issued for a zero from word the
\* invocation is inside the mint branch.
C1_MintIffFromZero ==
    /\ InMintBranch => event.data[1] = 0
    /\ (Called("update_token_transfers") /\ event.data[1] = 0) => InMintBranch

C1_Witness ==
    /\ pc = "done" /\ result = "Ok"
    /\ event.data[1] = 0 /\ event.data[2] # 0
    /\ Called("update_token")

\* C2: "tokenURI" is called before "token_uri"; "token_uri" is called only
\* when the "tokenURI" result is empty or "undefined"; a usable "tokenURI"
\* result is what get_token_uri returns, and "token_uri" is then never called.
C2_LegacyFirst ==
    /\ \A i \in 1..Len(calls) :
          calls[i] = "token_uri" =>
             /\ \E j \in 1..(i - 1) : calls[j] = "tokenURI"
             /\ token_uri_cairo0 \in {"", "undefined"}
    /\ pc = "token_uri" => token_uri_cairo0 \in {"", "undefined"}
    /\ (Called("tokenURI") /\ token_uri_cairo0 \notin {"", "undefined"}) =>
          /\ token_uri = token_uri_cairo0
          /\ ~Called("token_uri")
          /\ pc # "token_uri"

C2_Witness ==
    /\ pc = "done"
    /\ token_uri_cairo0 = "undefined"
    /\ Called("token_uri")
    /\ token_uri = "https://host/2.json"

\* C3: when the block-header fetch fails or yields no timestamp, the
\* invocation ends by returning Err and has issued no store write.
C3_HeaderFailureReturnsErr ==
    (pc = "done" /\ calls = <<"get_block_with_txs">>) =>
        /\ result = "Err"
        /\ \A name \in StoreWrites : ~Called(name)

\* C4: once the block header was fetched, no failure of a later step stops
\* the invocation: it ends by returning Ok.
C4_OnlyHeaderFailureStops ==
    (pc = "done" /\ Called("tokenURI")) => result = "Ok"

\* C5: a mint whose URI resolution ends unresolved still has its token
\* record written, and no HTTP GET is issued for it.
C5_UnresolvedMintStillRecorded ==
    (/\ pc = "done" /\ result = "Ok"
     /\ event.data[1] = 0
     /\ Called("token_uri") /\ token_uri = "undefined") =>
        /\ Called("update_token")
        /\ ~Called("http_get")

NormalizedStrings == {"description", "image", "name"}

\* C6: for every JSON object fetch_metadata receives it returns Ok;
\* description, image and name are the same-named top-level string member
\* or ""; attributes has one entry per element of the "attributes" array
\* (none when it is absent or not an array), each of trait_type, value and
\* display_type being the element's string member or "".
C6_NormalizationTotal ==
    (/\ pc = "fetch_metadata_returned"
     /\ response.net = "ok" /\ response.body = "json"
     /\ response.json.k = "obj") =>
        /\ fetched.ok
        /\ \A key \in NormalizedStrings :
              fetched.normalized[key] =
                 IF response.json.f[key].k = "str" THEN response.json.f[key].s ELSE ""
        /\ LET attrs == response.json.f["attributes"]
               out == fetched.normalized.attributes
           IN  IF attrs.k = "arr"
               THEN /\ Len(out) = Len(attrs.a)
                    /\ \A i \in 1..Len(attrs.a) : \A key \in AttrKeys :
                          out[i][key] =
                             IF attrs.a[i].k = "obj" /\ attrs.a[i].f[key].k = "str"
                             THEN attrs.a[i].f[key].s
                             ELSE ""
               ELSE out = <<>>

C6_Witness ==
    /\ pc = "fetch_metadata_returned"
    /\ fetched.ok
    /\ response.json.k = "obj"
    /\ response.json.f["name"].k = "str"
    /\ response.json.f["description"].k = "num"
    /\ response.json.f["attributes"].k = "arr"
    /\ Len(response.json.f["attributes"].a) >= 2
    /\ response.json.f["attributes"].a[1].k = "num"
    /\ response.json.f["attributes"].a[2].k = "obj"
    /\ response.json.f["attributes"].a[2].f["value"].k = "num"
    /\ response.json.f["attributes"].a[2].f["trait_type"].k = "str"

\* C7: the external_url of every NormalizedMetadata fetch_metadata produces
\* is its initial_metadata_uri argument, whatever the fetched JSON holds.
C7_ExternalUrlIsInitialUri ==
    (pc = "fetch_metadata_returned" /\ fetched.ok) =>
        fetched.normalized.external_url = initial_metadata_uri

C7_Witness ==
    /\ pc = "fetch_metadata_returned"
    /\ fetched.ok
    /\ response.json.k = "obj"
    /\ response.json.f["external_url"].k = "str"
    /\ response.json.f["external_url"].s # initial_metadata_uri

\* C8: running the latest_mint reconciliation a second time with the same
\* timestamp leaves the stored latest_mint as the first run left it, for
\* every stored value and every timestamp.
C8_ReconciliationIdempotent ==
    /\ \A ts \in Timestamps :
          Reconciled(Reconciled(collection.latest_mint, ts), ts)
             = Reconciled(collection.latest_mint, ts)
    /\ (lastRecon.ran /\ (lastRecon.wanted => lastRecon.applied)) =>
          Reconciled(lastRecon.after, lastRecon.ts) = lastRecon.after

C8_Witness ==
    /\ pc = "done"
    /\ lastRecon.ran /\ lastRecon.applied
    /\ IsSome(lastRecon.before)
    /\ lastRecon.after # lastRecon.before

C10_ExactlyOneTransferWrite ==
    (pc = "done" /\ Called("tokenURI")) =>
        /\ Count("update_token_transfers") = 1
        /\ \A i \in 1..Len(calls) :
              calls[i] \in MintWrites =>
                 \E j \in 1..(i - 1) : calls[j] = "update_token_transfers"


\* C11: every mint that ends with Ok issued exactly one
\* add_collection_activity, and no entry of the activity log was changed.
C11_OneMintActivity ==
    (pc = "done" /\ result = "Ok" /\ event.data[1] = 0) =>
        /\ Count("add_collection_activity") = 1
        /\ Len(activities) >= 1 => activities[1].event_type = "mint"

\* C12: get_token_owner returns the first word of the "ownerOf" result as a
\* string when the call succeeds with a word, and the empty string when the
\* call fails or returns no word; either way process_transfers goes on to
\* the collection upsert.
C12_OwnerNeverFails ==
    Called("ownerOf") =>
        /\ token_owner =
              IF owner_result.ok /\ Len(owner_result.words) > 0
              THEN <<"0", "x", "1">>
              ELSE <<>>
        /\ pc # "ownerOf"
        /\ pc = "done" => Called("update_collection")

C12_Witness ==
    /\ pc = "done" /\ result = "Ok"
    /\ ~owner_result.ok
    /\ token_owner = <<>>
    /\ Called("update_token_transfers")

\* C13: a transfer whose from word is not zero changes no token row, no
\* latest_mint and no activity entry, issues no HTTP GET, and calls nothing
\* of the store but the collection upsert and the transfer record.
C13_NonMintWritesNothingElse ==
    [][(event.data[1] # 0) =>
          /\ tokens' = tokens
          /\ activities' = activities
          /\ collection'.latest_mint = collection.latest_mint
          /\ \A i \in 1..Len(calls') : calls'[i] \notin MintCalls]_vars

C13_Witness ==
    /\ pc = "done" /\ result = "Ok"
    /\ event.data[1] # 0
    /\ Len(transfers) = 1
    /\ collection.exists
    /\ tokens = {}

\* C16: for a stored latest_mint that parses as E and a mint timestamp T,
\* update_collection_latest_mint is issued if and only if E > T.
C16_WriteIffStoredGreater ==
    (/\ collection_result.tag = "some"
     /\ IsSome(collection_result.row.latest_mint)
     /\ IsSome(ParseU64(collection_result.row.latest_mint.v))) =>
        ((pc = "update_collection_latest_mint" \/ Called("update_collection_latest_mint"))
            <=> ParseU64(collection_result.row.latest_mint.v).v > timestamp)

C16_Witness ==
    /\ pc = "done" /\ result = "Ok"
    /\ collection_result.tag = "some"
    /\ collection_result.row.latest_mint = Some(<<"2">>)
    /\ timestamp = 2
    /\ ~Called("update_collection_latest_mint")
    /\ Called("add_collection_activity")

\* C17: a mint for a collection row without latest_mint issues the write of
\* the mint's block timestamp, and the row holds it once the write succeeded.
C17_AbsentLatestMintSet ==
    (collection_result.tag = "some" /\ collection_result.row.latest_mint = None) =>
        /\ pc = "update_collection_latest_mint" \/ Called("update_collection_latest_mint")
        /\ (lastRecon.ran /\ lastRecon.applied) =>
              /\ IsSome(collection.latest_mint)
              /\ ParseU64(collection.latest_mint.v) = Some(timestamp)

C17_Witness ==
    /\ pc = "done" /\ result = "Ok"
    /\ collection_result.tag = "some"
    /\ collection_result.row.latest_mint = None
    /\ lastRecon.applied
    /\ timestamp = 2
    /\ collection.latest_mint = Some(<<"2">>)

UriResolved == pc \notin {"start", "get_block_with_txs", "tokenURI", "token_uri"}
                /\ Called("tokenURI")

\* C19: get_token_uri returns the "tokenURI" result when that is neither
\* empty nor "undefined", else the "token_uri" result when that is neither,
\* else "undefined"; so it never returns an empty string, and returns
\* "undefined" exactly when both results were empty or "undefined".
C19_ReturnedUri ==
    UriResolved =>
        /\ token_uri # ""
        /\ token_uri = "undefined" <=>
              (/\ token_uri_cairo0 \in {"", "undefined"}
               /\ Called("token_uri")
               /\ token_uri_new \in {"", "undefined"})
        /\ token_uri # "undefined" =>
              \/ token_uri = token_uri_cairo0 /\ ~Called("token_uri")
              \/ /\ token_uri_cairo0 \in {"", "undefined"}
                 /\ Called("token_uri")
                 /\ token_uri = token_uri_new

C19_Witness ==
    /\ pc = "done"
    /\ token_uri_cairo0 = ""
    /\ token_uri_new = ""
    /\ Called("token_uri")
    /\ token_uri = "undefined"

\* C20: a stored latest_mint that parses as an integer keeps that integer
\* through every step of a mint, the write in the parseable case handing
\* back the value that was read.
C20_ParseableLatestMintFrozen ==
    [][(IsSome(collection.latest_mint) /\ IsSome(ParseU64(collection.latest_mint.v))) =>
          /\ IsSome(collection'.latest_mint)
          /\ ParseU64(collection'.latest_mint.v) = ParseU64(collection.latest_mint.v)]_vars

C20_Witness ==
    /\ pc = "done" /\ result = "Ok"
    /\ lastRecon.ran /\ lastRecon.applied
    /\ lastRecon.before = Some(<<"2">>)
    /\ lastRecon.ts = 0
    /\ collection.latest_mint = Some(<<"2">>)

\* some call a was issued before some call b in this invocation
CalledBefore(a, b) ==
    \E i, j \in 1..Len(calls) : i < j /\ calls[i] = a /\ calls[j] = b

\* C21: a mint whose collection lookup returned no record or an error issues
\* no latest_mint write and appends no CollectionActivity entry; whatever
\* the lookup returned, the metadata is fetched exactly when the sanitized
\* URI is not empty and update_token is issued exactly when that fetch
\* returned Ok, after it; and every TokenRecord written carries the
\* resolver's token URI, the resolved owner, the event's transaction hash
\* and block number.
C21_LookupMissSkipsCollectionOnly ==
    /\ (Called("get_collection") /\ collection_result.tag \in {"none", "err"}) =>
          /\ ~Called("update_collection_latest_mint")
          /\ ~Called("add_collection_activity")
          /\ ~lastRecon.ran
          /\ activities \in {<<>>, <<PriorActivity>>}
    /\ (pc = "done" /\ Called("get_collection")) =>
          /\ Called("http_get") <=> metadata_uri # ""
          /\ Called("update_token") <=> (Called("http_get") /\ fetched.ok)
    /\ Called("update_token") =>
          /\ fetched.ok
          /\ CalledBefore("http_get", "update_token")
          /\ Count("update_token") = 1
    /\ tokens # {} => Called("update_token")
    /\ \A t \in tokens :
          /\ t.token_uri = token_uri
          /\ t.owner = token_owner
          /\ t.mint_transaction_hash = FmtHex(event.transaction_hash)
          /\ t.block_number_minted = event.block_number
          /\ t.raw = <<"to_string", fetched.raw>>
          /\ t.normalized = fetched.normalized

C21_Witness ==
    /\ pc = "done" /\ result = "Ok"
    /\ Called("get_collection")
    /\ collection_result.tag = "err"
    /\ token_uri = "ipfs://Qm/1.json"
    /\ Called("update_token")
    /\ tokens # {}
    /\ activities = <<PriorActivity>>


\* the stored latest_mint after the two reconciliations run one after the
\* other, first a then b, every write succeeding
Serial(a, b) ==
    Reconciled(Reconciled(lastRecon[0].before, timestamp[a]), timestamp[b])

\* both invocations read a row and are through, and no write failed in the
\* store for another reason than its condition
ConcSettled ==
    /\ \A p \in Procs : pc[p] = "reconciled" /\ collection_result[p].tag = "some"
    /\ \A p \in Procs :
          (/\ lastRecon[p].wanted
           /\ lastRecon[p].before = collection_result[p].row.latest_mint) =>
              lastRecon[p].applied

\* the final latest_mint of two interleaved reconciliations is the one of a
\* serial order
ConcSerialOutcome ==
    ConcSettled => collection.latest_mint \in {Serial(1, 2), Serial(2, 1)}

C18_BadResponsesFail ==
    (/\ pc = "fetch_metadata_returned"
     /\ \/ response.net # "ok"
        \/ response.status < 200
        \/ response.status > 299
        \/ response.body # "json") =>
        ~fetched.ok


ClaimedPath ==
    LET dir_path == IF file.dir_path = None THEN <<".", "tmp">>
                    ELSE file.dir_path.v.comps
    IN  Resolved(Path(FALSE, <<"images">> \o dir_path \o file.name.comps))

SavedAt(p) ==
    /\ \E f \in files : f.path = p /\ f.content = file.content
    /\ Cardinality({f \in files : f.path = p}) = 1
    /\ \A n \in 1..(Len(p.comps) - 1) : Path(p.abs, SubSeq(p.comps, 1, n)) \in dirs

\* save with a relative dir_path and a relative name
SaveRelativeOk ==
    (/\ save_result = "Ok"
     /\ ~file.name.abs
     /\ file.dir_path # None => ~file.dir_path.v.abs) =>
        SavedAt(ClaimedPath)

\* C15: after save returned Ok, images/<dir_path>/<name> (images/tmp/<name>
\* without dir_path) is a file whose content is file.content, its directories
\* exist, and a file that was there before has been replaced.
C15_SavedUnderImages ==
    save_result = "Ok" => SavedAt(ClaimedPath)

====
